---- MODULE Spec2Model ----
(***************************************************************************)
(* onErrorResumeNext (src/internal/operators/onErrorResumeNext.ts).        *)
(*                                                                         *)
(* One subscription to the operator's result owns a queue `remaining` of   *)
(* pending sources, a downstream `subscriber`, and one forwarding inner    *)
(* subscriber per source taken from the queue.  JavaScript is single       *)
(* threaded and run-to-completion: every action below is one whole         *)
(* callback (the outer subscribe, a source's next / error / complete, a    *)
(* downstream unsubscribe), with every call it makes nested inside it.     *)
(* The calls are operators over a record `st` of the subscription's        *)
(* fields; `d` is the number of subscribeNext frames on the call stack.    *)
(***************************************************************************)
EXTENDS Integers, Sequences, FiniteSets, TLC

\* ---- bounds -------------------------------------------------------------
MaxSources == 3    \* length of [source, ...nextSources]
MaxVals == 2       \* values one source emits
MaxCancelAt == 1   \* downstream may unsubscribe inside its k-th next, k <= MaxCancelAt

Subs == {1, 2}     \* independent subscriptions to the same operator result

VARIABLES
    cfg,        \* cfg[s][i]: how source i behaves for subscription s
    cancelAt,   \* cancelAt[s]: downstream unsubscribes inside its k-th next (0: never)
    started,    \* started[s]: the operate() callback has run
    remaining,  \* remaining[s]: the queue of pending sources
    closed,     \* closed[s]: subscriber.closed
    cancelled,  \* cancelled[s]: downstream has called unsubscribe
    inner,      \* inner[s][i]: innerSub of source i: "none", "open", "closed"
    child,      \* child[s][i]: innerSub i is among subscriber's teardowns
    teardown,   \* teardown[s][i]: subscribeNext is registered on innerSub i
    sent,       \* sent[s][i]: values source i has pushed to its innerSub
    done,       \* done[s][i]: source i has pushed its terminal notification
    log,        \* log[s]: history of events of subscription s
    depth       \* depth[s]: deepest nesting of subscribeNext frames so far

vars == <<cfg, cancelAt, started, remaining, closed, cancelled, inner,
          child, teardown, sent, done, log, depth>>

\* ---- sources ------------------------------------------------------------
\* "bad": innerFrom throws for this entry.  "sync": the source pushes all its
\* values and its terminal notification inside subscribe().  "async": it
\* pushes them later, one callback each.
BadSource == [kind |-> "bad", nvals |-> 0, term |-> "error"]

SourceBehaviours ==
    [kind : {"sync", "async"}, nvals : 0..MaxVals, term : {"complete", "error"}]
        \cup {BadSource}

SourceLists == UNION {[1..n -> SourceBehaviours] : n \in 1..MaxSources}

\* ---- events of the history ----------------------------------------------
NextEv(i, k) == <<"next", i, k>>     \* downstream received value k of source i
CompleteEv == <<"complete">>         \* downstream received complete
ErrorEv == <<"error">>               \* downstream received error
CancelEv == <<"cancel">>             \* downstream called unsubscribe
SubEv(i) == <<"sub", i>>             \* innerSub i created and subscribed to source i
FinEv(i) == <<"fin", i>>             \* innerSub i finalized (closed)
LateEv(i, k) == <<"late", i, k>>     \* value k of source i reached a stopped subscriber
AdvEv(n) == <<"adv", n>>             \* subscribeNext entered, as the n-th frame of it on the stack
ShiftEv(i) == <<"shift", i>>         \* remaining.shift() returned entry i

IsNotification(e) == e[1] \in {"next", "complete", "error"}
IsNext(e) == e[1] = "next"

Emit(st, e) == [st EXCEPT !.log = Append(@, e)]
NextCount(l) == Len(SelectSeq(l, IsNext))
Max(a, b) == IF a >= b THEN a ELSE b

\* ---- the calls ----------------------------------------------------------
RECURSIVE SubscribeNext(_, _)
RECURSIVE InnerUnsubscribe(_, _, _)
RECURSIVE UnsubscribeInners(_, _, _)
RECURSIVE PushValues(_, _, _, _)

\* Subscription.unsubscribe of innerSub i: closes it and runs its teardowns,
\* of which the only one is subscribeNext (line 104).
InnerUnsubscribe(st, i, d) ==
    IF st.inner[i] # "open" THEN st
    ELSE LET st1 == Emit([st EXCEPT !.inner[i] = "closed"], FinEv(i))
         IN  IF st1.teardown[i]
             THEN SubscribeNext([st1 EXCEPT !.teardown[i] = FALSE], d)
             ELSE st1

\* subscriber's teardowns are the inner subscribers added to it, run in the
\* order added (the queue order).
UnsubscribeInners(st, i, d) ==
    IF i > Len(st.cfg) THEN st
    ELSE IF st.child[i]
         THEN UnsubscribeInners(InnerUnsubscribe(st, i, d), i + 1, d)
         ELSE UnsubscribeInners(st, i + 1, d)

\* subscriber.unsubscribe(): closed is set first, then the children go.
SubscriberUnsubscribe(st, d) ==
    IF st.closed THEN st
    ELSE UnsubscribeInners([st EXCEPT !.closed = TRUE], 1, d)

\* Downstream withdraws: from outside, or from inside its own next handler.
DownstreamCancel(st, d) ==
    SubscriberUnsubscribe([Emit(st, CancelEv) EXCEPT !.cancelled = TRUE], d)

\* subscriber.next(v): dropped once stopped; the downstream handler may
\* unsubscribe inside the delivery (take(k)).
SubscriberNext(st, i, k, d) ==
    IF st.closed THEN Emit(st, LateEv(i, k))
    ELSE LET st1 == Emit(st, NextEv(i, k))
         IN  IF NextCount(st1.log) = st1.cancelAt
             THEN DownstreamCancel(st1, d)
             ELSE st1

\* subscriber.complete(): delivered once, then the subscriber unsubscribes.
SubscriberComplete(st, d) ==
    IF st.closed THEN st
    ELSE SubscriberUnsubscribe(Emit(st, CompleteEv), d)

\* subscriber.error(err): delivered once, then the subscriber unsubscribes.
SubscriberError(st, d) ==
    IF st.closed THEN st
    ELSE SubscriberUnsubscribe(Emit(st, ErrorEv), d)

\* The handlers handed to innerSub on line 102:
\*   new OperatorSubscriber(subscriber, undefined, noop, noop)
\* onNext undefined: the value goes to the destination, subscriber.
InnerOnNext(st, i, k, d) == SubscriberNext(st, i, k, d)
\* onError is noop.  (Variant ForwardError: undefined instead of noop, the
\* error goes to the destination.)
ForwardError(st, d) == SubscriberError(st, d)
\* (Variant AdvanceOnError: subscribeNext as the error handler, so that the
\* handler advances before innerSub is torn down.)
AdvanceOnError(st, d) == SubscribeNext(st, d)
InnerOnError(st, d) == st
\* onComplete is noop.  (Variant ForwardComplete: undefined instead of noop,
\* the complete goes to the destination.)
ForwardComplete(st, d) == SubscriberComplete(st, d)
\* (Variant AdvanceOnComplete: subscribeNext as the complete handler.)
AdvanceOnComplete(st, d) == SubscribeNext(st, d)
InnerOnComplete(st, d) == st

\* innerSub.next(v): nothing once innerSub is stopped.
InnerNext(st, i, k, d) ==
    IF st.inner[i] # "open" THEN st ELSE InnerOnNext(st, i, k, d)

\* innerSub.error(err): the handler, then innerSub unsubscribes itself.
InnerError(st, i, d) ==
    IF st.inner[i] # "open" THEN st
    ELSE InnerUnsubscribe(InnerOnError(st, d), i, d)

\* innerSub.complete(): the handler, then innerSub unsubscribes itself.
InnerComplete(st, i, d) ==
    IF st.inner[i] # "open" THEN st
    ELSE InnerUnsubscribe(InnerOnComplete(st, d), i, d)

InnerTerminal(st, i, d) ==
    LET st1 == [st EXCEPT !.done[i] = TRUE]
    IN  IF st.cfg[i].term = "error" THEN InnerError(st1, i, d)
        ELSE InnerComplete(st1, i, d)

\* A synchronous source pushes values k..n into innerSub i one after another.
PushValues(st, i, k, d) ==
    IF k > st.cfg[i].nvals THEN st
    ELSE PushValues(InnerNext([st EXCEPT !.sent[i] = k], i, k, d), i, k + 1, d)

\* nextSource.subscribe(innerSub) (line 103): a synchronous source runs to
\* its end inside the call, an asynchronous one returns at once.
SourceSubscribe(st, i, d) ==
    IF st.cfg[i].kind = "sync"
    THEN InnerTerminal(PushValues(st, i, 1, d), i, d)
    ELSE st

\* subscriber.add(innerSub) (line 103): a closed subscriber tears down what
\* it is given at once.
SubscriberAddInner(st, i, d) ==
    IF st.closed THEN InnerUnsubscribe(st, i, d)
    ELSE [st EXCEPT !.child[i] = TRUE]

\* innerSub.add(subscribeNext) (line 104): a closed subscription runs the
\* teardown it is given at once, an open one keeps it.  (Variant
\* TeardownNotAdded: line 104 left out.)
TeardownNotAdded(st, i, d) == st
InnerAddSubscribeNext(st, i, d) ==
    IF st.inner[i] = "closed" THEN SubscribeNext(st, d)
    ELSE [st EXCEPT !.teardown[i] = TRUE]

\* The guard of line 88: has subscriber been closed?  (Variant
\* NoClosedCheck: the guard left out.)
NoClosedCheck(st) == FALSE
SubscriberClosed(st) == st.closed

\* new OperatorSubscriber(subscriber, ...) (line 102): innerSub is created
\* open, and its constructor adds it to its destination, subscriber.
\* (Variant UnwiredInnerSub: a subscriber of another kind, which subscriber
\* comes to own only on line 103, after subscribe() has returned: the case
\* the comment of lines 98-101 warns of.)
UnwiredInnerSub(st, i) == Emit([st EXCEPT !.inner[i] = "open"], SubEv(i))
CreateInnerSub(st, i) ==
    Emit([st EXCEPT !.inner[i] = "open", !.child[i] = TRUE], SubEv(i))

\* The catch block (lines 93-96): innerFrom threw, subscribeNext calls itself.
\* (Variants: CatchReturns returns without advancing, CatchRaises sends the
\* error downstream.)
CatchReturns(st, d) == st
CatchRaises(st, d) == SubscriberError(st, d)
OnConversionError(st, d) == SubscribeNext(st, d)

\* (Variant TakesLast of subscribeNext: remaining.pop() in place of
\* remaining.shift().)
TakesLast(st, d) ==
    LET st0 == Emit([st EXCEPT !.depth = Max(@, d + 1)], AdvEv(d + 1))
    IN  IF ~SubscriberClosed(st0)
        THEN IF Len(st0.remaining) > 0
             THEN LET i == st0.remaining[Len(st0.remaining)]
                      st1 == Emit([st0 EXCEPT !.remaining = SubSeq(@, 1, Len(@) - 1)],
                                  ShiftEv(i))
                  IN  IF st1.cfg[i].kind = "bad"
                      THEN OnConversionError(st1, d + 1)
                      ELSE LET st2 == CreateInnerSub(st1, i)
                               st3 == SourceSubscribe(st2, i, d + 1)
                               st4 == SubscriberAddInner(st3, i, d + 1)
                           IN  InnerAddSubscribeNext(st4, i, d + 1)
             ELSE SubscriberComplete(st0, d + 1)
        ELSE st0

\* subscribeNext (lines 87-109), called with d frames of it on the stack.
SubscribeNext(st, d) ==
    LET st0 == Emit([st EXCEPT !.depth = Max(@, d + 1)], AdvEv(d + 1))
    IN  IF ~SubscriberClosed(st0)
        THEN IF Len(st0.remaining) > 0
             THEN LET i == Head(st0.remaining)
                      st1 == Emit([st0 EXCEPT !.remaining = Tail(@)], ShiftEv(i))
                  IN  IF st1.cfg[i].kind = "bad"
                      THEN OnConversionError(st1, d + 1)
                      ELSE LET st2 == CreateInnerSub(st1, i)
                               st3 == SourceSubscribe(st2, i, d + 1)
                               st4 == SubscriberAddInner(st3, i, d + 1)
                           IN  InnerAddSubscribeNext(st4, i, d + 1)
             ELSE SubscriberComplete(st0, d + 1)
        ELSE st0

\* The queue of line 86: [source, ...nextSources].  (Variant
\* FallbacksFirst: [...nextSources, source].)
FallbacksFirst(n) == [i \in 1..n |-> IF i = n THEN 1 ELSE i + 1]
InitialQueue(n) == [i \in 1..n |-> i]

\* The operate() callback (lines 85-111): the queue is built, then
\* subscribeNext runs.
OuterSubscribe(st) ==
    SubscribeNext([st EXCEPT !.started = TRUE,
                             !.remaining = InitialQueue(Len(st.cfg))], 0)

\* ---- state of one subscription as a record, and back --------------------
St(s) ==
    [cfg |-> cfg[s], cancelAt |-> cancelAt[s], started |-> started[s],
     remaining |-> remaining[s], closed |-> closed[s], cancelled |-> cancelled[s],
     inner |-> inner[s], child |-> child[s], teardown |-> teardown[s], sent |-> sent[s],
     done |-> done[s], log |-> log[s], depth |-> depth[s]]

PutAll(f) ==
    /\ cfg' = [s \in Subs |-> f[s].cfg]
    /\ cancelAt' = [s \in Subs |-> f[s].cancelAt]
    /\ started' = [s \in Subs |-> f[s].started]
    /\ remaining' = [s \in Subs |-> f[s].remaining]
    /\ closed' = [s \in Subs |-> f[s].closed]
    /\ cancelled' = [s \in Subs |-> f[s].cancelled]
    /\ inner' = [s \in Subs |-> f[s].inner]
    /\ child' = [s \in Subs |-> f[s].child]
    /\ teardown' = [s \in Subs |-> f[s].teardown]
    /\ sent' = [s \in Subs |-> f[s].sent]
    /\ done' = [s \in Subs |-> f[s].done]
    /\ log' = [s \in Subs |-> f[s].log]
    /\ depth' = [s \in Subs |-> f[s].depth]

\* The variant in which the queue is one array created with the operator and
\* shared by every subscription.
PutShared(s, r) ==
    PutAll(<<IF s = 1 THEN r ELSE [St(1) EXCEPT !.remaining = r.remaining],
             IF s = 2 THEN r ELSE [St(2) EXCEPT !.remaining = r.remaining]>>)

Put(s, r) == PutAll(<<IF s = 1 THEN r ELSE St(1), IF s = 2 THEN r ELSE St(2)>>)

Srcs(s) == 1..Len(cfg[s])

\* ---- what can happen to one subscription --------------------------------
CanSubscribe(s) == ~started[s]

CanSourceNext(s, i) ==
    /\ i \in Srcs(s)
    /\ cfg[s][i].kind = "async"
    /\ inner[s][i] # "none"
    /\ ~done[s][i]
    /\ sent[s][i] < cfg[s][i].nvals

CanTerminate(s, i) ==
    /\ i \in Srcs(s)
    /\ cfg[s][i].kind = "async"
    /\ inner[s][i] # "none"
    /\ ~done[s][i]
    /\ sent[s][i] = cfg[s][i].nvals

CanSourceTerminal(s, i, t) == CanTerminate(s, i) /\ cfg[s][i].term = t

CanCancel(s) == started[s] /\ ~cancelled[s]

DoSourceNext(s, i) ==
    InnerNext([St(s) EXCEPT !.sent[i] = @ + 1], i, sent[s][i] + 1, 0)

DoSourceTerminal(s, i) == InnerTerminal(St(s), i, 0)

DoCancel(s) == DownstreamCancel(St(s), 0)

\* ---- one subscription ----------------------------------------------------
InitRun ==
    /\ started = [s \in Subs |-> FALSE]
    /\ remaining = [s \in Subs |-> <<>>]
    /\ closed = [s \in Subs |-> FALSE]
    /\ cancelled = [s \in Subs |-> FALSE]
    /\ inner = [s \in Subs |-> [i \in 1..Len(cfg[s]) |-> "none"]]
    /\ child = [s \in Subs |-> [i \in 1..Len(cfg[s]) |-> FALSE]]
    /\ teardown = [s \in Subs |-> [i \in 1..Len(cfg[s]) |-> FALSE]]
    /\ sent = [s \in Subs |-> [i \in 1..Len(cfg[s]) |-> 0]]
    /\ done = [s \in Subs |-> [i \in 1..Len(cfg[s]) |-> FALSE]]
    /\ log = [s \in Subs |-> <<>>]
    /\ depth = [s \in Subs |-> 0]

Init ==
    /\ \E c \in SourceLists : cfg = [s \in Subs |-> c]
    /\ \E k \in 0..MaxCancelAt : cancelAt = [s \in Subs |-> k]
    /\ InitRun

Subscribe == CanSubscribe(1) /\ Put(1, OuterSubscribe(St(1)))

SourceNext == \E i \in Srcs(1) : CanSourceNext(1, i) /\ Put(1, DoSourceNext(1, i))

SourceError ==
    \E i \in Srcs(1) : CanSourceTerminal(1, i, "error") /\ Put(1, DoSourceTerminal(1, i))

SourceComplete ==
    \E i \in Srcs(1) : CanSourceTerminal(1, i, "complete") /\ Put(1, DoSourceTerminal(1, i))

Cancel == CanCancel(1) /\ Put(1, DoCancel(1))

Next == Subscribe \/ SourceNext \/ SourceError \/ SourceComplete \/ Cancel

Spec == Init /\ [][Next]_vars


\* ---- one subscription whose downstream never unsubscribes, and whose -----
\* ---- sources all get to run to their end ---------------------------------
InitLive ==
    /\ \E c \in SourceLists : cfg = [s \in Subs |-> c]
    /\ cancelAt = [s \in Subs |-> 0]
    /\ InitRun

NextLive == Subscribe \/ SourceNext \/ SourceError \/ SourceComplete

\* What the fairness is about, said on the environment's own variables: the
\* outer subscribe is called; a subscribed source with values left pushes
\* one; a subscribed source that has pushed all its values terminates.  Under
\* NextLive these are the Subscribe, SourceNext and SourceError /
\* SourceComplete steps, and they are enabled exactly when those are.
SubscribeCalled == CanSubscribe(1) /\ started' = [started EXCEPT ![1] = TRUE]

SourcePushes ==
    \E i \in Srcs(1) : CanSourceNext(1, i) /\ sent' = [sent EXCEPT ![1][i] = @ + 1]

SourceTerminates ==
    \E i \in Srcs(1) :
        /\ CanTerminate(1, i)
        /\ \E f \in [Srcs(1) -> BOOLEAN] : f[i] /\ done' = [done EXCEPT ![1] = f]

LiveSpec ==
    /\ InitLive
    /\ [][NextLive]_vars
    /\ WF_started(SubscribeCalled)
    /\ WF_sent(SourcePushes)
    /\ WF_done(SourceTerminates)

\* ---- two subscriptions driven in lockstep --------------------------------
\* The same event happens to both subscriptions in one step; a subscription
\* for which the event cannot happen stays as it is.
Lock(Can(_), Do(_)) ==
    /\ \E s \in Subs : Can(s)
    /\ PutAll(<<IF Can(1) THEN Do(1) ELSE St(1), IF Can(2) THEN Do(2) ELSE St(2)>>)

PairSubscribe == Lock(CanSubscribe, LAMBDA s : OuterSubscribe(St(s)))

PairSourceNext ==
    \E i \in 1..MaxSources :
        Lock(LAMBDA s : CanSourceNext(s, i), LAMBDA s : DoSourceNext(s, i))

PairSourceTerminal ==
    \E i \in 1..MaxSources :
        Lock(LAMBDA s : CanTerminate(s, i), LAMBDA s : DoSourceTerminal(s, i))

PairCancel == Lock(CanCancel, DoCancel)

NextPair == PairSubscribe \/ PairSourceNext \/ PairSourceTerminal \/ PairCancel

\* Subscription 1 sees every source complete; subscription 2 sees the same
\* sources with the same values, each ending with error or with complete.
AllComplete(c) ==
    [i \in DOMAIN c |->
        IF c[i].kind = "bad" THEN c[i] ELSE [c[i] EXCEPT !.term = "complete"]]

InitModes ==
    /\ \E c \in SourceLists : cfg = [s \in Subs |-> IF s = 1 THEN AllComplete(c) ELSE c]
    /\ \E k \in 0..MaxCancelAt : cancelAt = [s \in Subs |-> k]
    /\ InitRun

SpecModes == InitModes /\ [][NextPair]_vars

\* Subscription 1 has at least one entry innerFrom throws for; subscription 2
\* has, in their places, sources that error inside subscribe() without a value.
ImmediateError == [kind |-> "sync", nvals |-> 0, term |-> "error"]

ErrorsForBad(c) ==
    [i \in DOMAIN c |-> IF c[i].kind = "bad" THEN ImmediateError ELSE c[i]]

InitConv ==
    /\ \E c \in SourceLists :
          /\ \E i \in DOMAIN c : c[i].kind = "bad"
          /\ cfg = [s \in Subs |-> IF s = 1 THEN c ELSE ErrorsForBad(c)]
    /\ \E k \in 0..MaxCancelAt : cancelAt = [s \in Subs |-> k]
    /\ InitRun

SpecConv == InitConv /\ [][NextPair]_vars

\* ---- properties -----------------------------------------------------------
Out(s) == SelectSeq(log[s], IsNotification)
IsSub(e) == e[1] = "sub"
SubOrder(s) == SelectSeq(log[s], IsSub)
Pos(s) == 1..Len(log[s])
Has(l, e) == \E p \in 1..Len(l) : l[p] = e
Before(s, e, p) == \E q \in 1..(p - 1) : log[s][q] = e
Bad(s, i) == cfg[s][i].kind = "bad"
Values(c, i) == [k \in 1..c[i].nvals |-> NextEv(i, k)]

RECURSIVE Expected(_, _)
Expected(c, n) ==
    IF n = 0 THEN <<>>
    ELSE Expected(c, n - 1) \o (IF c[n].kind = "bad" THEN <<>> ELSE Values(c, n))

AllTerminated(s) == started[s] /\ \A i \in Srcs(s) : Bad(s, i) \/ done[s][i]
ActiveAt(s, i, p) == Before(s, SubEv(i), p) /\ ~Before(s, FinEv(i), p)

\* C1: whatever the sources do (values, complete, error, a conversion that
\* throws) and wherever downstream unsubscribes, downstream never receives an
\* error notification.
C1_NoErrorDownstream ==
    \A s \in Subs : \A p \in Pos(s) : log[s][p] # ErrorEv

\* A source has ended with error and an entry whose conversion throws has
\* been taken from the queue.
C1_Witness ==
    /\ \E i \in Srcs(1) : cfg[1][i].term = "error" /\ done[1][i] /\ Has(log[1], FinEv(i))
    /\ \E j \in Srcs(1) : Bad(1, j) /\ started[1] /\ ~Has(remaining[1], j)

\* C2: when downstream never unsubscribes and every source has terminated,
\* downstream has received exactly the values of the sources in queue order,
\* then complete; and at every moment a value of a source is delivered only
\* after every source before it in the queue has finalized.
C2_ConcatenationInQueueOrder ==
    \A s \in Subs :
        /\ (AllTerminated(s) /\ ~cancelled[s])
              => Out(s) = Expected(cfg[s], Len(cfg[s])) \o <<CompleteEv>>
        /\ \A p \in Pos(s) :
              IsNext(log[s][p])
                 => \A i \in 1..(log[s][p][2] - 1) :
                        Bad(s, i) \/ Before(s, FinEv(i), p)

\* P = [a, b] complete, F1 = [c] error, F2 = [d] complete: a, b, c, d, complete.
C2_Witness ==
    /\ Len(cfg[1]) = 3
    /\ cfg[1][1].nvals = 2 /\ cfg[1][1].term = "complete" /\ ~Bad(1, 1)
    /\ cfg[1][2].nvals = 1 /\ cfg[1][2].term = "error" /\ ~Bad(1, 2)
    /\ cfg[1][3].nvals = 1 /\ cfg[1][3].term = "complete" /\ ~Bad(1, 3)
    /\ Out(1) = <<NextEv(1, 1), NextEv(1, 2), NextEv(2, 1), NextEv(3, 1), CompleteEv>>

\* C3: downstream receives complete at most once; when it does the queue is
\* empty and every inner subscription made has already finalized; and no
\* notification follows the complete.  (Once complete is delivered subscriber
\* is closed and subscribeNext takes nothing more from the queue, so the
\* queue of the state is the queue complete was delivered with.)
C3_CompleteOnceWhenExhausted ==
    \A s \in Subs : \A p \in Pos(s) :
        log[s][p] = CompleteEv
           => /\ remaining[s] = <<>>
              /\ \A i \in Srcs(s) : inner[s][i] # "open"
              /\ \A i \in Srcs(s) : Before(s, SubEv(i), p) => Before(s, FinEv(i), p)
              /\ \A q \in Pos(s) : q # p => log[s][q] # CompleteEv
              /\ \A q \in Pos(s) : q > p => ~IsNotification(log[s][q])

\* Complete was delivered after the last of several sources, which completed.
C3_Witness ==
    /\ Len(cfg[1]) >= 2
    /\ ~Bad(1, Len(cfg[1])) /\ cfg[1][Len(cfg[1])].term = "complete"
    /\ done[1][Len(cfg[1])]
    /\ Has(log[1], CompleteEv)

\* C4: if downstream never unsubscribes and every source gets to terminate
\* (by complete, by error, or by a conversion that throws), downstream
\* eventually receives complete, and never more than one.
C4_EventuallyCompleteOnce ==
    /\ <>(Has(log[1], CompleteEv))
    /\ [](Len(SelectSeq(log[1], LAMBDA e : e = CompleteEv)) <= 1)

\* Complete was delivered although the last source subscribed ended with error.
C4_Witness ==
    /\ Len(cfg[1]) >= 2
    /\ ~Bad(1, Len(cfg[1])) /\ cfg[1][Len(cfg[1])].term = "error"
    /\ done[1][Len(cfg[1])]
    /\ Out(1)[Len(Out(1))] = CompleteEv

\* C5: two runs over the same sources with the same values, which differ only
\* in whether each source ends with error or with complete, deliver the same
\* notifications downstream and subscribe the same sources in the same order.
C5_TerminationModeNotObservable ==
    /\ Out(1) = Out(2)
    /\ SubOrder(1) = SubOrder(2)

\* The first source ended with error in one run and with complete in the
\* other, and both runs went on to the later sources and completed.
C5_Witness ==
    /\ Len(cfg[2]) >= 2
    /\ cfg[2][1].term = "error" /\ cfg[1][1].term = "complete"
    /\ done[1][1] /\ done[2][1]
    /\ NextCount(log[2]) >= 2
    /\ Has(log[2], CompleteEv)

\* C6: with no fallback source, downstream receives what the source itself
\* produced: its values and then its own terminal notification.
C6_ZeroFallbacksBehaveAsSource ==
    \A s \in Subs :
        (Len(cfg[s]) = 1 /\ ~Bad(s, 1) /\ done[s][1] /\ ~cancelled[s])
           => Out(s) = Values(cfg[s], 1)
                         \o <<IF cfg[s][1].term = "error" THEN ErrorEv ELSE CompleteEv>>

C8_CancelTearsDownAndStops ==
    \A s \in Subs : \A p \in Pos(s) :
        log[s][p] = CancelEv
           => /\ \A i \in Srcs(s) :
                    ActiveAt(s, i, p) => p < Len(log[s]) /\ log[s][p + 1] = FinEv(i)
              /\ \A i \in Srcs(s) : inner[s][i] # "open"
              /\ \A q \in Pos(s) : q > p => ~IsSub(log[s][q])

\* Downstream unsubscribed while P was active, with F1 and F2 still queued.
C8_Witness ==
    /\ Len(cfg[1]) = 3
    /\ remaining[1] = <<2, 3>>
    /\ \E p \in Pos(1) : log[1][p] = CancelEv /\ ActiveAt(1, 1, p)
    /\ inner[1] = <<"closed", "none", "none">>

\* C9: after downstream unsubscribes it receives nothing more, and no value
\* even reaches the stopped subscriber: the inner subscriber of a source that
\* pushes synchronously is closed by the unsubscription, which is what stops
\* a firehose.
C9_NothingAfterCancel ==
    \A s \in Subs : \A p \in Pos(s) :
        log[s][p] = CancelEv
           => \A q \in Pos(s) :
                 q > p => ~IsNotification(log[s][q]) /\ log[s][q][1] # "late"

\* The last source of the queue pushes two values inside subscribe();
\* downstream unsubscribes inside the first, the second is pushed in vain.
C9_Witness ==
    /\ Len(cfg[1]) >= 2
    /\ cfg[1][Len(cfg[1])].kind = "sync"
    /\ sent[1][Len(cfg[1])] = 2
    /\ remaining[1] = <<>>
    /\ \E p \in Pos(1) :
          /\ p >= 2 /\ p < Len(log[1])
          /\ log[1][p - 1] = NextEv(Len(cfg[1]), 1)
          /\ log[1][p] = CancelEv
          /\ log[1][p + 1] = FinEv(Len(cfg[1]))

\* C10: an entry whose conversion throws is taken from the queue and never
\* subscribed, advancement goes on at once to the next entry or to complete,
\* and the run is the one of a source that errors at once without a value in
\* that place.
C10_ConversionFailureIsImmediateError ==
    /\ Out(1) = Out(2)
    /\ remaining[1] = remaining[2]
    /\ closed[1] = closed[2]
    /\ \A i \in Srcs(1) :
          Bad(1, i)
             => /\ inner[1][i] = "none"
                /\ (started[1] /\ ~Has(remaining[1], i) /\ ~closed[1])
                      => \E j \in Srcs(1) : j > i /\ inner[1][j] = "open"

\* The second of three entries could not be converted; the third source's
\* value and complete were delivered.
C10_Witness ==
    /\ Len(cfg[1]) = 3
    /\ Bad(1, 2)
    /\ Has(log[1], NextEv(3, 1))
    /\ Has(log[1], CompleteEv)

IsShift(e) == e[1] = "shift"
IsAdv(e) == e[1] = "adv"
Shifts(s) == SelectSeq(log[s], IsShift)
IsPrefix(a, b) == Len(a) <= Len(b) /\ SubSeq(b, 1, Len(a)) = a

\* The subscriptions of a whole run: the entries that convert, in list order.
RECURSIVE Convertible(_, _)
Convertible(c, n) ==
    IF n = 0 THEN <<>>
    ELSE Convertible(c, n - 1) \o (IF c[n].kind = "bad" THEN <<>> ELSE <<SubEv(n)>>)

\* C11: the sources subscribed so far are a prefix of [primary, F1..Fn]
\* without the entries whose conversion throws; the entries are taken from
\* the queue in list order, each once; an entry taken that converts is
\* subscribed; and a run that ended with complete has subscribed them all.
C11_SubscribedInListOrder ==
    [](\A s \in Subs :
           /\ IsPrefix(SubOrder(s), Convertible(cfg[s], Len(cfg[s])))
           /\ Shifts(s) = [k \in 1..Len(Shifts(s)) |-> ShiftEv(k)]
           /\ \A i \in Srcs(s) :
                 (Has(log[s], ShiftEv(i)) /\ ~Bad(s, i)) => Has(log[s], SubEv(i))
           /\ Has(log[s], CompleteEv)
                 => SubOrder(s) = Convertible(cfg[s], Len(cfg[s])))

\* Of three entries the second could not be converted: the first and the
\* third were subscribed, in that order, and the run completed.
C11_Witness ==
    /\ Len(cfg[1]) = 3
    /\ Bad(1, 2)
    /\ SubOrder(1) = <<SubEv(1), SubEv(3)>>
    /\ Has(log[1], CompleteEv)

OpenInners(s) == {i \in Srcs(s) : inner[s][i] = "open"}

\* C12: at most one inner subscription is alive at a time, and an inner
\* subscription is created only after every earlier one has finalized.
C12_OneInnerAtATime ==
    [](\A s \in Subs :
           /\ Cardinality(OpenInners(s)) <= 1
           /\ \A p \in Pos(s) :
                 IsSub(log[s][p])
                    => \A i \in Srcs(s) :
                           Before(s, SubEv(i), p) => Before(s, FinEv(i), p))

\* The first source was finalized, then the second subscribed; it is alive.
C12_Witness ==
    /\ Len(cfg[1]) >= 2
    /\ SubOrder(1) = <<SubEv(1), SubEv(2)>>
    /\ inner[1][1] = "closed"
    /\ inner[1][2] = "open"

ErrorsAtOnce(s, i) == ~Bad(s, i) /\ cfg[s][i].nvals = 0 /\ cfg[s][i].term = "error"

\* C13: when every source of the list errors without a value and downstream
\* does not unsubscribe, all that downstream receives is one complete.
C13_AllErrorsGiveOneComplete ==
    \A s \in Subs :
        ((\A i \in Srcs(s) : ErrorsAtOnce(s, i)) /\ AllTerminated(s) /\ ~cancelled[s])
           => Out(s) = <<CompleteEv>>

\* Three sources, each erroring inside subscribe(): one complete.
C13_Witness ==
    /\ cfg[1] = <<ImmediateError, ImmediateError, ImmediateError>>
    /\ ~cancelled[1]
    /\ Out(1) = <<CompleteEv>>

\* C14: advancement is iterative: however many sources terminate inside
\* their own subscribe() call, the nesting of subscribeNext frames stays
\* within a constant.  (Two frames are what one source needs: the call that
\* subscribes it and the call line 104 makes when it has already closed.)
C14_NestingBoundedByConstant ==
    \A s \in Subs : (\A i \in Srcs(s) : cfg[s][i].kind = "sync") => depth[s] <= 2

\* The entries after i that convert, i.e. the candidates for "the next source".
LaterSources(s, i) == {j \in Srcs(s) : j > i /\ ~Bad(s, j)}
IsSynchronous(s, i) == cfg[s][i].kind = "sync"

\* C15: subscribe() is one step of the model, so every state with started
\* set is a state at or after its return.  Unless downstream unsubscribed, a
\* source that terminates inside its own subscribe() call has by then been
\* finalized and its successor subscribed (or, with no successor, complete
\* was delivered); and when no source is asynchronous, downstream has every
\* value and the complete as soon as subscribe() has returned.
C15_SynchronousSourcesExhaustedEagerly ==
    \A s \in Subs :
        (started[s] /\ ~cancelled[s])
           => /\ \A i \in Srcs(s) :
                    (IsSynchronous(s, i) /\ Has(log[s], SubEv(i)))
                       => /\ done[s][i]
                          /\ Has(log[s], FinEv(i))
                          /\ IF LaterSources(s, i) = {}
                             THEN Has(log[s], CompleteEv)
                             ELSE Has(log[s], SubEv(CHOOSE j \in LaterSources(s, i) :
                                          \A k \in LaterSources(s, i) : j <= k))
              /\ (\A i \in Srcs(s) : cfg[s][i].kind # "async")
                    => Out(s) = Expected(cfg[s], Len(cfg[s])) \o <<CompleteEv>>

\* Right after subscribe() returned: the first source delivered its value and
\* terminated inside the call, and the asynchronous second one is subscribed
\* and has not produced anything yet.
C15_Witness ==
    /\ Len(cfg[1]) >= 2
    /\ IsSynchronous(1, 1) /\ cfg[1][1].nvals = 1
    /\ cfg[1][2].kind = "async"
    /\ ~cancelled[1]
    /\ Out(1) = <<NextEv(1, 1)>>
    /\ inner[1][2] = "open" /\ sent[1][2] = 0 /\ ~done[1][2]

\* ---- two subscriptions to one combinator result, interleaved -------------
\* Both subscriptions run the same source list; every callback belongs to
\* one of them, and the callbacks of the two interleave freely.
TwoBehaviours ==
    {b \in SourceBehaviours :
        \/ b.kind = "bad"
        \/ b.kind = "async" /\ b.nvals = 1
        \/ b.kind = "sync" /\ b.nvals = 1 /\ b.term = "error"}

InitTwo ==
    /\ \E c \in SourceLists :
          /\ \A i \in 1..Len(c) : c[i] \in TwoBehaviours
          /\ cfg = [s \in Subs |-> c]
    /\ \E k \in 0..MaxCancelAt : cancelAt = [s \in Subs |-> k]
    /\ InitRun

SubscribeIn(s) == CanSubscribe(s) /\ Put(s, OuterSubscribe(St(s)))

SourceNextIn(s) ==
    \E i \in Srcs(s) : CanSourceNext(s, i) /\ Put(s, DoSourceNext(s, i))

SourceTerminalIn(s) ==
    \E i \in Srcs(s) : CanTerminate(s, i) /\ Put(s, DoSourceTerminal(s, i))

CancelIn(s) == CanCancel(s) /\ Put(s, DoCancel(s))

NextTwo ==
    \E s \in Subs :
        SubscribeIn(s) \/ SourceNextIn(s) \/ SourceTerminalIn(s) \/ CancelIn(s)

SpecTwo == InitTwo /\ [][NextTwo]_vars

Untouched(s) ==
    /\ remaining'[s] = remaining[s]
    /\ inner'[s] = inner[s]
    /\ log'[s] = log[s]
    /\ closed'[s] = closed[s]
    /\ cancelled'[s] = cancelled[s]

\* What is left of a subscription's own queue after k entries were taken.
QueueAfter(s, k) == SubSeq(InitialQueue(Len(cfg[s])), k + 1, Len(cfg[s]))

\* C16: each subscription has its own queue and its own inner subscriptions.
\* Under every interleaving a step changes the queue, the inner
\* subscriptions and the history (sources subscribed, notifications
\* delivered) of at most one subscription; each subscription takes its
\* entries from the full list [primary, F1..Fn], front first, whatever the
\* other one has done; and each one, left uncancelled until its sources
\* have terminated, delivers the whole concatenation and complete.
C16_SubscriptionsAreIndependent ==
    /\ [][\E s \in Subs : \A t \in Subs \ {s} : Untouched(t)]_vars
    /\ [](\A s \in Subs :
             /\ started[s] => remaining[s] = QueueAfter(s, Len(Shifts(s)))
             /\ Shifts(s) = [k \in 1..Len(Shifts(s)) |-> ShiftEv(k)]
             /\ IsPrefix(SubOrder(s), Convertible(cfg[s], Len(cfg[s])))
             /\ (AllTerminated(s) /\ ~cancelled[s])
                   => Out(s) = Expected(cfg[s], Len(cfg[s])) \o <<CompleteEv>>)

\* Subscription 1 was cancelled while its first source was alive and has two
\* entries left in its queue; subscription 2 went through all three sources
\* and completed.
C16_Witness ==
    /\ Len(cfg[1]) = 3
    /\ cancelled[1] /\ remaining[1] = <<2, 3>> /\ SubOrder(1) = <<SubEv(1)>>
    /\ ~cancelled[2] /\ remaining[2] = <<>>
    /\ SubOrder(2) = <<SubEv(1), SubEv(2), SubEv(3)>>
    /\ Has(log[2], CompleteEv)

\* C17: the queue changes only inside subscribeNext and only by losing its
\* front entry.  It always is the initial list without the entries taken so
\* far, every removal directly follows an entry into subscribeNext, a step
\* in which no source terminates (a forwarded value, a downstream
\* unsubscribe) leaves it as it was, and once downstream has unsubscribed
\* nothing is removed again, although the teardown of the cancelled inner
\* subscriber still runs subscribeNext.
C17_QueueOnlyLosesItsFront ==
    /\ [](\A s \in Subs :
             /\ started[s] => remaining[s] = QueueAfter(s, Len(Shifts(s)))
             /\ \A p \in Pos(s) :
                   /\ IsShift(log[s][p]) => (p > 1 /\ IsAdv(log[s][p - 1]))
                   /\ log[s][p] = CancelEv
                         => \A q \in Pos(s) : q > p => ~IsShift(log[s][q]))
    /\ [][\A s \in Subs :
             /\ (started[s] /\ done'[s] = done[s]) => remaining'[s] = remaining[s]
             /\ cancelled[s] => remaining'[s] = remaining[s]]_vars

\* Downstream unsubscribed while the first of three sources was alive: its
\* inner subscriber was finalized, its teardown entered subscribeNext, and
\* the queue still holds the two fallbacks.
C17_Witness ==
    /\ cancelled[1]
    /\ remaining[1] = <<2, 3>>
    /\ \E p \in Pos(1) :
          /\ p + 2 = Len(log[1])
          /\ log[1][p] = CancelEv
          /\ log[1][p + 1] = FinEv(1)
          /\ IsAdv(log[1][p + 2])

IsFin(e) == e[1] = "fin"
IsStep(e) == IsFin(e) \/ IsAdv(e) \/ IsShift(e)
\* The finalizations, entries into subscribeNext and removals, in order.
Steps(s) == SelectSeq(log[s], IsStep)

\* Every finalization of an inner subscriber is followed by one entry into
\* subscribeNext, and subscribeNext is entered for no other reason than the
\* start (line 111), a finalization (the teardown of line 104) and a
\* conversion that threw (line 94): the handlers do not enter it.
TeardownAdvancesOnce(s) ==
    LET T == Steps(s)
    IN  \A p \in 1..Len(T) :
            /\ IsFin(T[p]) => (p < Len(T) /\ IsAdv(T[p + 1]))
            /\ IsAdv(T[p])
                  => \/ p = 1
                     \/ IsFin(T[p - 1])
                     \/ IsShift(T[p - 1]) /\ Bad(s, T[p - 1][2])

\* No finalization between two removals.
SameAdvancement(T, q, r) == \A m \in (q + 1)..(r - 1) : ~IsFin(T[m])

\* C18 as stated: every finalization of an inner run triggers subscribeNext
\* exactly once, from the teardown and not from a handler, and so the
\* entries removed after one finalization and before the next are at most
\* one.
C18_FinalizationRemovesOneEntry ==
    \A s \in Subs :
        /\ TeardownAdvancesOnce(s)
        /\ LET T == Steps(s)
           IN  \A q \in 1..Len(T) :
                   (IsShift(T[q]) /\ \E p \in 1..(q - 1) : IsFin(T[p]))
                      => \A r \in (q + 1)..Len(T) :
                             IsShift(T[r]) => ~SameAdvancement(T, q, r)

\* C18 amended: every finalization of an inner run triggers subscribeNext
\* exactly once, from the teardown and not from a handler; the entries
\* removed after one finalization and before the next are the entries whose
\* conversion throws and at most one entry that converts, which ends the
\* removals.
C18_FinalizationRemovesOneSource ==
    [](\A s \in Subs :
           /\ TeardownAdvancesOnce(s)
           /\ LET T == Steps(s)
              IN  \A q \in 1..Len(T) :
                      (IsShift(T[q]) /\ ~Bad(s, T[q][2]))
                         => \A r \in (q + 1)..Len(T) :
                                IsShift(T[r]) => ~SameAdvancement(T, q, r))

\* The first source closed inside its subscribe() call, before line 104
\* registered the teardown; the teardown ran all the same, once, and its
\* advancement removed the second entry, whose conversion threw, and the
\* third, which is now subscribed.
C18_Witness ==
    /\ Len(cfg[1]) = 3
    /\ IsSynchronous(1, 1) /\ Bad(1, 2) /\ cfg[1][3].kind = "async"
    /\ inner[1][3] = "open"
    /\ LET T == Steps(1)
       IN  /\ Len(T) = 7
           /\ IsAdv(T[1]) /\ T[2] = ShiftEv(1) /\ T[3] = FinEv(1)
           /\ IsAdv(T[4]) /\ T[5] = ShiftEv(2)
           /\ IsAdv(T[6]) /\ T[7] = ShiftEv(3)

\* C19: every state of the model is one between callbacks.  Once subscribe()
\* has been called, downstream has received complete, or downstream has
\* unsubscribed, or exactly one inner subscriber is alive, whatever remains
\* in the queue: a conversion that throws leaves no state in which nothing
\* is subscribed and nothing was delivered.
C19_NoGap ==
    \A s \in Subs :
        started[s]
           => \/ Has(log[s], CompleteEv)
              \/ cancelled[s]
              \/ Cardinality(OpenInners(s)) = 1

\* The first two entries could not be converted; the run did not stop there:
\* the third source is alive, downstream has neither complete nor
\* unsubscribed.
C19_Witness ==
    /\ Len(cfg[1]) = 3
    /\ Bad(1, 1) /\ Bad(1, 2)
    /\ started[1] /\ ~cancelled[1] /\ ~Has(log[1], CompleteEv)
    /\ remaining[1] = <<>>
    /\ OpenInners(1) = {3}

====
